---- MODULE Spec2Model ----
(***************************************************************************)
(* A model of the relationship builder of guillermo/dbinfo (dbinfo.go).    *)
(*                                                                         *)
(* buildRelationships(tables) runs two loops over a slice of *Table:       *)
(*   1. lines 120-131: enter every table in tableMap under the key         *)
(*      Schema + "." + Name and turn nil HasMany/BelongsTo slices into     *)
(*      empty ones;                                                        *)
(*   2. lines 134-164: for every foreign key of every table, append a      *)
(*      BelongsTo entry to the table and, when tableMap holds the key of   *)
(*      the referenced table, a HasMany entry to the table found there.    *)
(* One step of the model is one iteration of one of the two loops.         *)
(*                                                                         *)
(* GetDBInfo and its readers (getTables, getColumns, getIndexes,           *)
(* getForeignKeys) are modelled call by call on the DBQuerier, the SQL of  *)
(* the columns and foreign-keys queries as operators over the              *)
(* information_schema views; main (cmd/dbinfo) with its YAML output runs   *)
(* on top of them.                                                         *)
(***************************************************************************)
EXTENDS Integers, Sequences, FiniteSets, TLC

\* ------------------------------------------------------------- bounds

\* Largest number of tables in the slice handed to buildRelationships.
MaxTables == 2

\* Largest number of foreign keys declared by all the tables together.
MaxForeignKeys == 2

\* ------------------------------------------------------------- inputs

\* The tables of the catalog, each identified by the pair <<schema, name>>.
\* PostgreSQL accepts any character in a quoted identifier, the '.' included.
TableIds == {<<"app", "users">>, <<"app", "v1.users">>, <<"app.v1", "users">>}

\* Constraint names, in the order of ORDER BY tc.constraint_name.
FKNames == <<"fk_a", "fk_b", "fk_c", "fk_d">>

\* The column lists and referential actions a foreign key row may carry:
\* a single-column key, and a key whose two lists differ in length.
FKShapes ==
    { [ColumnNames |-> <<"owner_id">>, RefColumnNames |-> <<"id">>,
       OnUpdate |-> "NO ACTION", OnDelete |-> "CASCADE"],
      [ColumnNames |-> <<"org_id", "owner_id">>, RefColumnNames |-> <<"id">>,
       OnUpdate |-> "CASCADE", OnDelete |-> "RESTRICT"] }

\* ---------------------------------------------------------- data model

\* A Go slice of *Relationship: nil, or a (possibly empty) list of entries.
NilSlice == [isNil |-> TRUE, elems |-> <<>>]

\* make([]*Relationship, 0)
EmptySlice == [isNil |-> FALSE, elems |-> <<>>]

\* The entry put in front of the list instead of behind it.
AppendSlice_Front(s, e) == [isNil |-> FALSE, elems |-> <<e>> \o s.elems]

\* append(s, e): the result is never nil.
AppendSlice(s, e) == [isNil |-> FALSE, elems |-> Append(s.elems, e)]

\* type ForeignKey struct
ForeignKey(name, shape, ref) ==
    [Name           |-> name,
     ColumnNames    |-> shape.ColumnNames,
     RefTableSchema |-> ref[1],
     RefTableName   |-> ref[2],
     RefColumnNames |-> shape.RefColumnNames,
     OnUpdate       |-> shape.OnUpdate,
     OnDelete       |-> shape.OnDelete]

\* type Table struct (the fields buildRelationships reads or writes)
Table(id, fks, hasMany, belongsTo) ==
    [Schema      |-> id[1],
     Name        |-> id[2],
     ForeignKeys |-> fks,
     HasMany     |-> hasMany,
     BelongsTo   |-> belongsTo]

\* A relationship entry that is in a list before buildRelationships runs.
StaleRelationship ==
    [Table      |-> "legacy",
     Schema     |-> "app",
     ForeignKey |-> "fk_legacy",
     Columns    |-> <<"id">>,
     References |-> <<"legacy_id">>,
     OnUpdate   |-> "NO ACTION",
     OnDelete   |-> "NO ACTION"]

\* The relationship lists of the tables on entry: nil (what getTables
\* leaves), empty, or already holding an entry.
InputSlices == {NilSlice, EmptySlice, [isNil |-> FALSE, elems |-> <<StaleRelationship>>]}

VARIABLES
    tables,     \* the slice of tables, HasMany/BelongsTo updated in place
    input,      \* the tables as they were when buildRelationships was called
    tableMap,   \* key -> index of the table stored under it
    pc,         \* "map": first loop, "link": second loop, "done": returned
    i,          \* index of the table the current loop is at
    j,          \* index of the foreign key the inner loop is at
    querier,    \* GetDBInfo: the DBQuerier, "pool" (*pgxpool.Pool) or "conn" (*pgx.Conn)
    catalog,    \* GetDBInfo: the database the catalog queries read
    db,         \* GetDBInfo: where the call is and what it has assembled
    calls,      \* GetDBInfo: the calls made on the DBQuerier and its rows, in order
    result,     \* GetDBInfo: the pair (*DBInfo, error) returned
    os,         \* main: os.Args and the DATABASE_URL of the environment
    cli         \* main: where the command is, its dsn, output and exit status

\* The variables of buildRelationships, of GetDBInfo and of main.
builderVars == <<tables, input, tableMap, pc, i, j>>

dbVars == <<querier, catalog, db, calls, result>>

cliVars == <<os, cli>>

vars == <<tables, input, tableMap, pc, i, j, querier, catalog, db, calls, result, os, cli>>

\* GetDBInfo is not running.
DBIdle ==
    /\ querier = "pool"
    /\ catalog = [Name |-> "", Tables |-> <<>>]
    /\ db = [pc |-> "idle"]
    /\ calls = <<>>
    /\ result = [returned |-> FALSE]

\* main is not running.
CLIIdle ==
    /\ os = [Args |-> <<>>, Env |-> ""]
    /\ cli = [pc |-> "idle"]

\* ---------------------------------------------------------- operations

\* key := table.Schema + "." + table.Name   (and refTableKey, line 150)
TableKey(schema, name) == schema \o "." \o name

\* The nil check left out: a nil list stays nil.
InitSlice_Skip(s) == s

\* The list reset whatever it held.
InitSlice_Reset(s) == EmptySlice

\* if table.HasMany == nil { table.HasMany = make([]*Relationship, 0) }
InitSlice(s) == IF s.isNil THEN EmptySlice ELSE s

\* The BelongsTo entry built with the column roles of the HasMany entry.
BelongsToOf_Swapped(fk) ==
    [Table      |-> fk.RefTableName,
     Schema     |-> fk.RefTableSchema,
     ForeignKey |-> fk.Name,
     Columns    |-> fk.RefColumnNames,
     References |-> fk.ColumnNames,
     OnUpdate   |-> fk.OnUpdate,
     OnDelete   |-> fk.OnDelete]

\* belongsTo := &Relationship{...}
BelongsToOf(fk) ==
    [Table      |-> fk.RefTableName,
     Schema     |-> fk.RefTableSchema,
     ForeignKey |-> fk.Name,
     Columns    |-> fk.ColumnNames,
     References |-> fk.RefColumnNames,
     OnUpdate   |-> fk.OnUpdate,
     OnDelete   |-> fk.OnDelete]

\* The HasMany entry built with the column roles of the BelongsTo entry.
HasManyOf_Unswapped(table, fk) ==
    [Table      |-> table.Name,
     Schema     |-> table.Schema,
     ForeignKey |-> fk.Name,
     Columns    |-> fk.ColumnNames,
     References |-> fk.RefColumnNames,
     OnUpdate   |-> fk.OnUpdate,
     OnDelete   |-> fk.OnDelete]

\* hasMany := &Relationship{...}
HasManyOf(table, fk) ==
    [Table      |-> table.Name,
     Schema     |-> table.Schema,
     ForeignKey |-> fk.Name,
     Columns    |-> fk.RefColumnNames,
     References |-> fk.ColumnNames,
     OnUpdate   |-> fk.OnUpdate,
     OnDelete   |-> fk.OnDelete]

\* tableMap[key] = table
MapPut(m, key, idx) ==
    [k \in DOMAIN m \cup {key} |-> IF k = key THEN idx ELSE m[k]]

\* The foreign keys of table t among the declarations d, named in
\* constraint-name order.
ForeignKeysOf(d, t) ==
    LET mine == SelectSeq(d, LAMBDA x : x[1] = t)
    IN  [k \in 1..Len(mine) |-> ForeignKey(FKNames[k], mine[k][3], mine[k][2])]

\* The declarations are listed table by table.
Grouped(d) == \A a, b \in DOMAIN d : a < b => d[a][1] <= d[b][1]

\* The state on entry to buildRelationships: any slice of at most
\* MaxTables tables declaring at most MaxForeignKeys foreign keys.
Init ==
    \E n \in 0..MaxTables :
      \E ids \in [1..n -> TableIds] :
        \E m \in 0..MaxForeignKeys :
          \E d \in [1..m -> (1..n) \X TableIds \X FKShapes] :
            \E pre \in InputSlices :
              /\ Grouped(d)
              /\ tables = [t \in 1..n |->
                             Table(ids[t], ForeignKeysOf(d, t), pre, pre)]
              /\ input = tables
              /\ tableMap = <<>>
              /\ pc = "map"
              /\ i = 1
              /\ j = 1
              /\ DBIdle
              /\ CLIIdle

\* The first loop writing the key it computed into the table's name.
MapTable_Qualifying ==
    /\ pc = "map"
    /\ i <= Len(tables)
    /\ tableMap' = MapPut(tableMap, TableKey(tables[i].Schema, tables[i].Name), i)
    /\ tables' = [tables EXCEPT ![i].HasMany = InitSlice(@),
                                ![i].BelongsTo = InitSlice(@),
                                ![i].Name = TableKey(tables[i].Schema, @)]
    /\ i' = i + 1
    /\ UNCHANGED <<input, pc, j, dbVars, cliVars>>

\* One iteration of the first loop (lines 120-131).
MapTable ==
    /\ pc = "map"
    /\ i <= Len(tables)
    /\ tableMap' = MapPut(tableMap, TableKey(tables[i].Schema, tables[i].Name), i)
    /\ tables' = [tables EXCEPT ![i].HasMany = InitSlice(@),
                                ![i].BelongsTo = InitSlice(@)]
    /\ i' = i + 1
    /\ UNCHANGED <<input, pc, j, dbVars, cliVars>>

\* The first loop is over; the second starts at the first table (line 134).
MapDone ==
    /\ pc = "map"
    /\ i > Len(tables)
    /\ pc' = "link"
    /\ i' = 1
    /\ j' = 1
    /\ UNCHANGED <<tables, input, tableMap, dbVars, cliVars>>

\* One iteration of the inner loop (lines 136-163).
ProcessForeignKey ==
    /\ pc = "link"
    /\ i <= Len(tables)
    /\ j <= Len(tables[i].ForeignKeys)
    /\ LET table       == tables[i]
           fk          == table.ForeignKeys[j]
           withBelongs == [tables EXCEPT ![i].BelongsTo =
                              AppendSlice(@, BelongsToOf(fk))]
           refTableKey == TableKey(fk.RefTableSchema, fk.RefTableName)
       IN  tables' =
             IF refTableKey \in DOMAIN tableMap
               THEN [withBelongs EXCEPT ![tableMap[refTableKey]].HasMany =
                        AppendSlice(@, HasManyOf(table, fk))]
               ELSE withBelongs
    /\ j' = j + 1
    /\ UNCHANGED <<input, tableMap, pc, i, dbVars, cliVars>>

\* The outer loop moving on by two tables.
NextTable_Skipping ==
    /\ pc = "link"
    /\ i <= Len(tables)
    /\ j > Len(tables[i].ForeignKeys)
    /\ i' = i + 2
    /\ j' = 1
    /\ UNCHANGED <<tables, input, tableMap, pc, dbVars, cliVars>>

\* The inner loop is over for this table; the outer loop moves on.
NextTable ==
    /\ pc = "link"
    /\ i <= Len(tables)
    /\ j > Len(tables[i].ForeignKeys)
    /\ i' = i + 1
    /\ j' = 1
    /\ UNCHANGED <<tables, input, tableMap, pc, dbVars, cliVars>>

\* The outer loop is over; buildRelationships returns (line 165).
Return ==
    /\ pc = "link"
    /\ i > Len(tables)
    /\ pc' = "done"
    /\ UNCHANGED <<tables, input, tableMap, i, j, dbVars, cliVars>>

Next ==
    \/ MapTable
    \/ MapDone
    \/ ProcessForeignKey
    \/ NextTable
    \/ Return

Spec == Init /\ [][Next]_vars

\* buildRelationships is entered with tables as getTables leaves them, the
\* relationship lists nil.
InitFromGetTables ==
    /\ Init
    /\ \A t \in DOMAIN tables : tables[t].HasMany.isNil /\ tables[t].BelongsTo.isNil

\* buildRelationships is a sequential function: nothing but its own
\* return stops it from taking its next step.
SpecTerminates == InitFromGetTables /\ [][Next]_vars /\ WF_vars(Next)

\* Sequence s with element e put in at place p.
InsertAt(s, p, e) == SubSeq(s, 1, p - 1) \o <<e>> \o SubSeq(s, p, Len(s))

\* buildRelationships is entered with a slice in which one table occurs
\* twice: any slice of Init of at least one table, and at any place in it a
\* second copy of one of its tables.
InitDuplicated ==
    \E n \in 1..MaxTables :
      \E ids \in [1..n -> TableIds] :
        \E m \in 0..MaxForeignKeys :
          \E d \in [1..m -> (1..n) \X TableIds \X FKShapes] :
            \E pre \in InputSlices :
              \E q \in 1..n :
                \E p \in 1..(n + 1) :
                  /\ Grouped(d)
                  /\ tables = InsertAt([t \in 1..n |->
                                           Table(ids[t], ForeignKeysOf(d, t), pre, pre)],
                                       p,
                                       Table(ids[q], ForeignKeysOf(d, q), pre, pre))
                  /\ input = tables
                  /\ tableMap = <<>>
                  /\ pc = "map"
                  /\ i = 1
                  /\ j = 1
                  /\ DBIdle
                  /\ CLIIdle

SpecDuplicated == InitDuplicated /\ [][Next]_vars

\* ------------------------------------------------------------ fixture

\* A foreign key of the fixture: one column referencing the id of a table of
\* schema public, named as PostgreSQL names an unnamed REFERENCES clause,
\* with the default ON UPDATE rule.
FixtureFK(table, column, refTable, onDelete) ==
    [Name           |-> table \o "_" \o column \o "_fkey",
     ColumnNames    |-> <<column>>,
     RefTableSchema |-> "public",
     RefTableName   |-> refTable,
     RefColumnNames |-> <<"id">>,
     OnUpdate       |-> "NO ACTION",
     OnDelete       |-> onDelete]

\* The tables of fixture.sql with their foreign keys, as getTables hands
\* them over: in the order of ORDER BY table_schema, table_name, the foreign
\* keys in the order of their constraint names, the relationship lists nil.
FixtureSchema ==
    << Table(<<"public", "categories">>, <<>>, NilSlice, NilSlice),
       Table(<<"public", "customers">>, <<>>, NilSlice, NilSlice),
       Table(<<"public", "order_items">>,
             << FixtureFK("order_items", "order_id", "orders", "CASCADE"),
                FixtureFK("order_items", "product_id", "products", "RESTRICT") >>,
             NilSlice, NilSlice),
       Table(<<"public", "orders">>,
             << FixtureFK("orders", "customer_id", "customers", "NO ACTION") >>,
             NilSlice, NilSlice),
       Table(<<"public", "products">>,
             << FixtureFK("products", "category_id", "categories", "CASCADE") >>,
             NilSlice, NilSlice) >>

\* buildRelationships is entered with the fixture's tables, in any order.
InitFixture ==
    \E order \in Permutations(DOMAIN FixtureSchema) :
        /\ tables = [k \in DOMAIN FixtureSchema |-> FixtureSchema[order[k]]]
        /\ input = tables
        /\ tableMap = <<>>
        /\ pc = "map"
        /\ i = 1
        /\ j = 1
        /\ DBIdle
        /\ CLIIdle

SpecFixture == InitFixture /\ [][Next]_vars

\* ---------------------------------------------------------- GetDBInfo

\* Largest number of tables the tables query lists.
MaxCatalogTables == 2

\* A value the catalog may answer with SQL NULL, scanned into a *string.
Null == [null |-> TRUE, val |-> ""]

NotNull(v) == [null |-> FALSE, val |-> v]

\* The value taken whether the pointer is nil or not.
Deref_Unchecked(p) == IF p.null THEN "<nil>" ELSE p.val

\* if comment != nil { table.Comment = *comment }: NULL becomes "".
Deref(p) == IF p.null THEN "" ELSE p.val

\* A row of the columns query.
ColumnRow(name, type, default, comment, isPrimaryKey) ==
    [Name |-> name, Type |-> type, IsNullable |-> FALSE,
     Default |-> default, Comment |-> comment, IsPrimaryKey |-> isPrimaryKey]

\* A row of the indexes query.
IndexRow(name, unique, columns) ==
    [Name |-> name, Unique |-> unique, Columns |-> columns, Expression |-> Null]

\* What the catalog queries answer for a table of fixture.sql: its comment,
\* its first two columns, its first index other than the primary key's.
CatalogRows ==
    [categories |->
        [Comment |-> NotNull("Product categories"),
         Columns |-> << ColumnRow("id", "integer",
                                  NotNull("nextval('categories_id_seq'::regclass)"), Null, TRUE),
                        ColumnRow("name", "character varying", Null,
                                  NotNull("Category name"), FALSE) >>,
         Indexes |-> <<>>],
     customers |->
        [Comment |-> NotNull("Customer information"),
         Columns |-> << ColumnRow("id", "integer",
                                  NotNull("nextval('customers_id_seq'::regclass)"), Null, TRUE),
                        ColumnRow("email", "character varying", Null, Null, FALSE) >>,
         Indexes |-> << IndexRow("customers_email_key", TRUE, <<"email">>) >>],
     order_items |->
        [Comment |-> NotNull("Individual items within an order"),
         Columns |-> << ColumnRow("id", "integer",
                                  NotNull("nextval('order_items_id_seq'::regclass)"), Null, TRUE),
                        ColumnRow("order_id", "integer", Null, Null, FALSE) >>,
         Indexes |-> << IndexRow("idx_order_items_order_id", FALSE, <<"order_id">>) >>],
     orders |->
        [Comment |-> NotNull("Customer orders"),
         Columns |-> << ColumnRow("id", "integer",
                                  NotNull("nextval('orders_id_seq'::regclass)"), Null, TRUE),
                        ColumnRow("customer_id", "integer", Null, Null, FALSE) >>,
         Indexes |-> << IndexRow("idx_orders_customer_id", FALSE, <<"customer_id">>) >>],
     products |->
        [Comment |-> NotNull("Available products"),
         Columns |-> << ColumnRow("id", "integer",
                                  NotNull("nextval('products_id_seq'::regclass)"), Null, TRUE),
                        ColumnRow("category_id", "integer", Null, Null, FALSE) >>,
         Indexes |-> << IndexRow("idx_products_category", FALSE, <<"category_id">>) >>]]

\* The rows the four catalog queries answer for the k-th table of the fixture.
CatalogTable(k) ==
    [Schema      |-> FixtureSchema[k].Schema,
     Name        |-> FixtureSchema[k].Name,
     Comment     |-> CatalogRows[FixtureSchema[k].Name].Comment,
     columns     |-> CatalogRows[FixtureSchema[k].Name].Columns,
     indexes     |-> CatalogRows[FixtureSchema[k].Name].Indexes,
     foreignKeys |-> FixtureSchema[k].ForeignKeys]

\* The elements of a set of numbers as an increasing sequence.
Ascending(S) ==
    CHOOSE f \in [1..Cardinality(S) -> S] :
        \A a, b \in 1..Cardinality(S) : a < b => f[a] < f[b]

\* ---------------------------------------------------- catalog queries

\* A second database, with what the fixture lacks: two tables of the same
\* name in different schemas, whose primary keys carry the same constraint
\* name (PostgreSQL names both entries_pkey) but cover different columns; a
\* table without comment; an index on an expression; a composite foreign
\* key. Listed in the order of ORDER BY t.table_schema, t.table_name.
Ledger ==
    << [Schema  |-> "audit",
        Name    |-> "entries",
        Comment |-> Null,
        Columns |-> << [Name |-> "id", Type |-> "integer", Nullable |-> FALSE,
                        Default |-> Null, Comment |-> Null],
                       [Name |-> "seq", Type |-> "bigint", Nullable |-> FALSE,
                        Default |-> NotNull("nextval('audit.entries_seq_seq'::regclass)"),
                        Comment |-> NotNull("Position in the audit trail")] >>,
        PrimaryKey  |-> [Name |-> "entries_pkey", Columns |-> <<"seq">>],
        Indexes     |-> << [Name |-> "entries_day_idx", Unique |-> FALSE,
                            Columns |-> <<>>,
                            Expression |-> NotNull("date_trunc('day'::text, at)")] >>,
        ForeignKeys |-> <<>>],
       [Schema  |-> "ledger",
        Name    |-> "entries",
        Comment |-> NotNull("Ledger entries"),
        Columns |-> << [Name |-> "id", Type |-> "integer", Nullable |-> FALSE,
                        Default |-> Null, Comment |-> Null],
                       [Name |-> "region", Type |-> "text", Nullable |-> FALSE,
                        Default |-> NotNull("'eu'::text"), Comment |-> Null],
                       [Name |-> "parent_id", Type |-> "integer", Nullable |-> TRUE,
                        Default |-> Null, Comment |-> NotNull("Entry this one corrects")],
                       [Name |-> "parent_region", Type |-> "text", Nullable |-> TRUE,
                        Default |-> Null, Comment |-> Null] >>,
        PrimaryKey  |-> [Name |-> "entries_pkey", Columns |-> <<"id", "region">>],
        Indexes     |-> << [Name |-> "entries_parent_idx", Unique |-> FALSE,
                            Columns |-> <<"parent_id", "parent_region">>,
                            Expression |-> Null] >>,
        ForeignKeys |-> << [Name |-> "entries_parent_fkey",
                            Columns |-> <<"parent_id", "parent_region">>,
                            RefSchema |-> "ledger", RefTable |-> "entries",
                            RefColumns |-> <<"id", "region">>,
                            OnUpdate |-> "NO ACTION", OnDelete |-> "CASCADE"] >>] >>

\* The constraint names of Ledger, in the order of ORDER BY.
ConstraintNames == <<"entries_parent_fkey", "entries_pkey">>

RECURSIVE Flatten(_)
\* The rows of several row lists, one list after the other.
Flatten(lists) ==
    IF lists = <<>> THEN <<>> ELSE Head(lists) \o Flatten(Tail(lists))

\* FROM a JOIN b, before the ON condition: every row of a with every row of b.
Cross(a, b) ==
    [n \in 1..(Len(a) * Len(b)) |->
        <<a[((n - 1) \div Len(b)) + 1], b[((n - 1) % Len(b)) + 1]>>]

\* information_schema.table_constraints over the tables d.
TableConstraints(d) ==
    Flatten([k \in DOMAIN d |->
        << [constraint_name |-> d[k].PrimaryKey.Name, table_schema |-> d[k].Schema,
            table_name |-> d[k].Name, constraint_type |-> "PRIMARY KEY"] >> \o
        [f \in DOMAIN d[k].ForeignKeys |->
           [constraint_name |-> d[k].ForeignKeys[f].Name, table_schema |-> d[k].Schema,
            table_name |-> d[k].Name, constraint_type |-> "FOREIGN KEY"]]])

\* information_schema.key_column_usage: the constrained columns of every
\* primary and foreign key, one row per column.
KeyColumnUsage(d) ==
    Flatten([k \in DOMAIN d |->
        [n \in DOMAIN d[k].PrimaryKey.Columns |->
           [constraint_name |-> d[k].PrimaryKey.Name, table_schema |-> d[k].Schema,
            table_name |-> d[k].Name, column_name |-> d[k].PrimaryKey.Columns[n]]] \o
        Flatten([f \in DOMAIN d[k].ForeignKeys |->
           [n \in DOMAIN d[k].ForeignKeys[f].Columns |->
              [constraint_name |-> d[k].ForeignKeys[f].Name, table_schema |-> d[k].Schema,
               table_name |-> d[k].Name,
               column_name |-> d[k].ForeignKeys[f].Columns[n]]]])])

\* information_schema.constraint_column_usage: for a primary key its own
\* columns, for a foreign key the columns it references, one row per column.
ConstraintColumnUsage(d) ==
    Flatten([k \in DOMAIN d |->
        [n \in DOMAIN d[k].PrimaryKey.Columns |->
           [constraint_name |-> d[k].PrimaryKey.Name, table_schema |-> d[k].Schema,
            table_name |-> d[k].Name, column_name |-> d[k].PrimaryKey.Columns[n]]] \o
        Flatten([f \in DOMAIN d[k].ForeignKeys |->
           [n \in DOMAIN d[k].ForeignKeys[f].RefColumns |->
              [constraint_name |-> d[k].ForeignKeys[f].Name,
               table_schema |-> d[k].ForeignKeys[f].RefSchema,
               table_name |-> d[k].ForeignKeys[f].RefTable,
               column_name |-> d[k].ForeignKeys[f].RefColumns[n]]]])])

\* information_schema.referential_constraints: one row per foreign key.
ReferentialConstraints(d) ==
    Flatten([k \in DOMAIN d |->
        [f \in DOMAIN d[k].ForeignKeys |->
           [constraint_name |-> d[k].ForeignKeys[f].Name,
            update_rule |-> d[k].ForeignKeys[f].OnUpdate,
            delete_rule |-> d[k].ForeignKeys[f].OnDelete]]])

\* The key columns joined to the constraint by the constraint name alone.
PrimaryKeyJoin_ByName(tc, kcu) == kcu.constraint_name = tc.constraint_name

\* JOIN information_schema.key_column_usage kcu ON kcu.constraint_name =
\* tc.constraint_name AND kcu.table_schema = tc.table_schema AND
\* kcu.table_name = tc.table_name (lines 243-245).
PrimaryKeyJoin(tc, kcu) ==
    /\ kcu.constraint_name = tc.constraint_name
    /\ kcu.table_schema = tc.table_schema
    /\ kcu.table_name = tc.table_name

\* The subquery pk of the columns query (lines 240-249): the names of the
\* primary-key columns of the table.
PrimaryKeyColumns(d, schema, tableName) ==
    LET joined == SelectSeq(Cross(TableConstraints(d), KeyColumnUsage(d)),
                     LAMBDA p : /\ PrimaryKeyJoin(p[1], p[2])
                                /\ p[1].constraint_type = "PRIMARY KEY"
                                /\ p[1].table_schema = schema
                                /\ p[1].table_name = tableName)
    IN  [n \in DOMAIN joined |-> joined[n][2].column_name]

\* The columns query (lines 233-252): the columns of the table in ordinal
\* position, LEFT JOINed to pk on the column name; a column matched by no
\* row of pk gives one row with is_primary_key FALSE, a column matched by
\* rows of pk gives one row for each, with is_primary_key TRUE.
ColumnsQuery(d, schema, tableName) ==
    LET mine == SelectSeq(d, LAMBDA t : t.Schema = schema /\ t.Name = tableName)
        cols == Flatten([k \in DOMAIN mine |-> mine[k].Columns])
        pk   == PrimaryKeyColumns(d, schema, tableName)
        row(c, isPrimaryKey) ==
            [Name |-> c.Name, Type |-> c.Type, IsNullable |-> c.Nullable,
             Default |-> c.Default, Comment |-> c.Comment,
             IsPrimaryKey |-> isPrimaryKey]
    IN  Flatten([n \in DOMAIN cols |->
            LET matches == SelectSeq(pk, LAMBDA name : name = cols[n].Name)
            IN  IF matches = <<>>
                  THEN << row(cols[n], FALSE) >>
                  ELSE [m \in DOMAIN matches |-> row(cols[n], TRUE)]])

\* The indexes query (lines 301-320): the indexes of the table other than
\* the primary key's, by name; an index on an expression has no column.
IndexesQuery(d, schema, tableName) ==
    LET mine == SelectSeq(d, LAMBDA t : t.Schema = schema /\ t.Name = tableName)
    IN  Flatten([k \in DOMAIN mine |-> mine[k].Indexes])

\* The place of a constraint name in the order of ORDER BY.
Rank(name) == CHOOSE n \in DOMAIN ConstraintNames : ConstraintNames[n] = name

\* The FROM and WHERE clauses of the foreign-keys query (lines 374-382):
\* the foreign-key constraints of the table, joined to key_column_usage, to
\* constraint_column_usage and to referential_constraints, each ON the
\* constraint name only. The rows come in the order of nested loops, outer
\* table first; SQL leaves the order open.
ForeignKeyRows(d, schema, tableName) ==
    LET tc  == SelectSeq(TableConstraints(d),
                  LAMBDA c : /\ c.constraint_type = "FOREIGN KEY"
                             /\ c.table_schema = schema
                             /\ c.table_name = tableName)
        j1  == SelectSeq(Cross(tc, KeyColumnUsage(d)),
                  LAMBDA p : p[1].constraint_name = p[2].constraint_name)
        j2  == SelectSeq(Cross(j1, ConstraintColumnUsage(d)),
                  LAMBDA p : p[2].constraint_name = p[1][1].constraint_name)
        j3  == SelectSeq(Cross(j2, ReferentialConstraints(d)),
                  LAMBDA p : p[2].constraint_name = p[1][1][1].constraint_name)
    IN  [n \in DOMAIN j3 |->
            [tc |-> j3[n][1][1][1], kcu |-> j3[n][1][1][2],
             ccu |-> j3[n][1][2], rc |-> j3[n][2]]]

\* GROUP BY tc.constraint_name, ccu.table_schema, ccu.table_name,
\* rc.update_rule, rc.delete_rule (lines 383-388).
GroupOf(r) ==
    [constraint_name |-> r.tc.constraint_name,
     table_schema    |-> r.ccu.table_schema,
     table_name      |-> r.ccu.table_name,
     update_rule     |-> r.rc.update_rule,
     delete_rule     |-> r.rc.delete_rule]

\* The foreign-keys query (lines 365-390): one row per group, by
\* constraint name, with array_agg over all the joined rows of the group.
ForeignKeysQuery(d, schema, tableName) ==
    LET rows   == ForeignKeyRows(d, schema, tableName)
        groups == {GroupOf(rows[n]) : n \in DOMAIN rows}
        order  == CHOOSE f \in [1..Cardinality(groups) -> groups] :
                     /\ \A a, b \in DOMAIN f : a # b => f[a] # f[b]
                     /\ \A a, b \in DOMAIN f :
                          a < b => Rank(f[a].constraint_name) <= Rank(f[b].constraint_name)
    IN  [g \in DOMAIN order |->
            LET members == SelectSeq(rows, LAMBDA r : GroupOf(r) = order[g])
            IN  [Name           |-> order[g].constraint_name,
                 ColumnNames    |-> [n \in DOMAIN members |-> members[n].kcu.column_name],
                 RefTableSchema |-> order[g].table_schema,
                 RefTableName   |-> order[g].table_name,
                 RefColumnNames |-> [n \in DOMAIN members |-> members[n].ccu.column_name],
                 OnUpdate       |-> order[g].update_rule,
                 OnDelete       |-> order[g].delete_rule]]

\* The tables query (lines 170-177) and, for each of its rows, the rows of
\* the three per-table queries.
CatalogOf(name, d) ==
    [Name   |-> name,
     Tables |-> [k \in DOMAIN d |->
        [Schema      |-> d[k].Schema,
         Name        |-> d[k].Name,
         Comment     |-> d[k].Comment,
         columns     |-> ColumnsQuery(d, d[k].Schema, d[k].Name),
         indexes     |-> IndexesQuery(d, d[k].Schema, d[k].Name),
         foreignKeys |-> ForeignKeysQuery(d, d[k].Schema, d[k].Name)]]]

\* The databases made of tables of Ledger, at most MaxCatalogTables of them.
LedgerCatalogs ==
    { CatalogOf("ledger", [k \in 1..Cardinality(S) |-> Ledger[Ascending(S)[k]]]) :
        S \in {S \in SUBSET (DOMAIN Ledger) : Cardinality(S) <= MaxCatalogTables} \ {{}} }

\* The tables of the fixture that the connected role may see, at most
\* MaxCatalogTables of them, listed in the order of ORDER BY t.table_schema,
\* t.table_name.
ShopCatalogs ==
    { [Name   |-> "shop",
       Tables |-> [k \in 1..Cardinality(S) |-> CatalogTable(Ascending(S)[k])]] :
        S \in {S \in SUBSET (DOMAIN FixtureSchema) : Cardinality(S) <= MaxCatalogTables} }

\* The databases GetDBInfo is run on.
Catalogs == ShopCatalogs \cup LedgerCatalogs

\* The failures a call on the DBQuerier or on its rows may end with.
Causes == {"timeout", "permission denied"}

\* What a single connection answers to a query while a result set is open.
ConnBusy == "conn busy"

\* The nil error, and the pair GetDBInfo returns on success and on failure.
NoError == [isNil |-> TRUE, msg |-> "", cause |-> ""]

\* The context message put in place of the failure instead of around it.
Errorf_Opaque(msg, cause) == [isNil |-> FALSE, msg |-> msg, cause |-> ""]

\* fmt.Errorf(msg + ": %w", err): a new error that wraps the failure.
Errorf(msg, cause) == [isNil |-> FALSE, msg |-> msg, cause |-> cause]

\* The three per-table readers getColumns, getIndexes and getForeignKeys, in
\* the order getTables calls them, and how their messages name their rows.
Readers == <<"columns", "indexes", "foreignKeys">>

Plural(reader) ==
    CASE reader = "columns" -> "columns"
      [] reader = "indexes" -> "indexes"
      [] reader = "foreignKeys" -> "foreign keys"

Singular(reader) ==
    CASE reader = "columns" -> "column"
      [] reader = "indexes" -> "index"
      [] reader = "foreignKeys" -> "foreign key"

\* The foreign keys read before the indexes.
After_Swapped(reader) ==
    CASE reader = "columns" -> "foreignKeys"
      [] reader = "foreignKeys" -> "indexes"
      [] reader = "indexes" -> "tablesNext"

\* The place in getTables after a reader has returned without error.
After(reader) ==
    CASE reader = "columns" -> "indexes"
      [] reader = "indexes" -> "foreignKeys"
      [] reader = "foreignKeys" -> "tablesNext"

\* What rows.Scan and the NULL handling make of a row.
Scanned(reader, row) ==
    CASE reader = "columns" ->
            [Name |-> row.Name, Type |-> row.Type, IsNullable |-> row.IsNullable,
             DefaultValue |-> Deref(row.Default), Comment |-> Deref(row.Comment),
             IsPrimaryKey |-> row.IsPrimaryKey]
      [] reader = "indexes" ->
            [Name |-> row.Name, Unique |-> row.Unique, Columns |-> row.Columns,
             Expression |-> Deref(row.Expression)]
      [] reader = "foreignKeys" -> row

\* table := &Table{} after rows.Scan and the NULL handling of the comment.
ScannedTable(row) ==
    [Schema      |-> row.Schema,
     Name        |-> row.Name,
     Comment     |-> Deref(row.Comment),
     Columns     |-> <<>>,
     Indexes     |-> <<>>,
     ForeignKeys |-> <<>>,
     HasMany     |-> NilSlice,
     BelongsTo   |-> NilSlice]

\* The rows stored last first.
WithRows_Reversed(table, reader, rows) ==
    LET reversed == [n \in DOMAIN rows |-> rows[Len(rows) + 1 - n]]
    IN  CASE reader = "columns" -> [table EXCEPT !.Columns = reversed]
          [] reader = "indexes" -> [table EXCEPT !.Indexes = reversed]
          [] reader = "foreignKeys" -> [table EXCEPT !.ForeignKeys = reversed]

\* table.Columns = columns, table.Indexes = indexes, table.ForeignKeys = foreignKeys
WithRows(table, reader, rows) ==
    CASE reader = "columns" -> [table EXCEPT !.Columns = rows]
      [] reader = "indexes" -> [table EXCEPT !.Indexes = rows]
      [] reader = "foreignKeys" -> [table EXCEPT !.ForeignKeys = rows]

\* A call on the DBQuerier or on rows: what was called, on which result
\* set, for which table row and which row of the reader, and how it ended.
Call(op, on, t, k, err) == [op |-> op, on |-> on, table |-> t, row |-> k, err |-> err]

\* A single connection is busy while a result set is open on it.
Busy == querier = "conn" /\ db.open # {}

\* How db.Query may end: "" is success.
QueryOutcomes == IF Busy THEN {ConnBusy} ELSE Causes \cup {""}

\* How rows.Scan, rows.Err and QueryRow(...).Scan may end.
RowOutcomes == Causes \cup {""}

\* GetDBInfo on entry: nothing queried, no result set open, no table read.
Entered ==
    [pc |-> "start", name |-> "", t |-> 0, k |-> 0, open |-> {},
     tables |-> <<>>, table |-> ScannedTable(CatalogTable(1)), rows |-> <<>>]

\* GetDBInfo is entered with a pool or a single connection.
InitDB ==
    /\ querier \in {"pool", "conn"}
    /\ catalog \in Catalogs
    /\ db = Entered
    /\ calls = <<>>
    /\ result = [returned |-> FALSE]
    /\ tables = <<>>
    /\ input = <<>>
    /\ tableMap = <<>>
    /\ pc = "idle"
    /\ i = 1
    /\ j = 1
    /\ CLIIdle

\* The error returned with the result sets left open.
Fail_RowsOpen(msg, call) ==
    /\ result' = [returned |-> TRUE, isNil |-> TRUE, err |-> Errorf(msg, call.err)]
    /\ db' = [db EXCEPT !.pc = "returned"]
    /\ calls' = Append(calls, call)
    /\ UNCHANGED <<querier, catalog, builderVars>>

\* return nil, fmt.Errorf(...): the deferred rows.Close() calls run.
Fail(msg, call) ==
    /\ result' = [returned |-> TRUE, isNil |-> TRUE, err |-> Errorf(msg, call.err)]
    /\ db' = [db EXCEPT !.pc = "returned", !.open = {}]
    /\ calls' = Append(calls, call)
    /\ UNCHANGED <<querier, catalog, builderVars>>

\* db.QueryRow(ctx, "SELECT current_database()").Scan(&dbName), lines 94-101.
QueryDatabaseName ==
    /\ db.pc = "start"
    /\ \E outcome \in RowOutcomes :
         LET call == Call("QueryRow", "database", 0, 0, outcome)
         IN  IF outcome = ""
               THEN /\ db' = [db EXCEPT !.pc = "getTables", !.name = catalog.Name]
                    /\ calls' = Append(calls, call)
                    /\ UNCHANGED <<querier, catalog, result, builderVars>>
               ELSE Fail("failed to get database name", call)
    /\ UNCHANGED cliVars

\* rows, err := db.Query(ctx, query); defer rows.Close(), lines 179-185.
QueryTables ==
    /\ db.pc = "getTables"
    /\ \E outcome \in QueryOutcomes :
         LET call == Call("Query", "tables", 0, 0, outcome)
         IN  IF outcome = ""
               THEN /\ db' = [db EXCEPT !.pc = "tablesNext", !.t = 0,
                                        !.open = @ \cup {"tables"}, !.tables = <<>>]
                    /\ calls' = Append(calls, call)
                    /\ UNCHANGED <<querier, catalog, result, builderVars>>
               ELSE Fail("failed to query tables", call)
    /\ UNCHANGED cliVars

\* rows.Next() is true; rows.Scan and the comment, lines 186-197.
ScanTable ==
    /\ db.pc = "tablesNext"
    /\ db.t < Len(catalog.Tables)
    /\ \E outcome \in RowOutcomes :
         LET call == Call("Scan", "tables", db.t + 1, 0, outcome)
         IN  IF outcome = ""
               THEN /\ db' = [db EXCEPT !.pc = Readers[1], !.t = @ + 1,
                                        !.table = ScannedTable(catalog.Tables[db.t + 1])]
                    /\ calls' = Append(calls, call)
                    /\ UNCHANGED <<querier, catalog, result, builderVars>>
               ELSE Fail("failed to scan table row", call)
    /\ UNCHANGED cliVars

\* getTables returns with the rows of the tables query left open.
TablesDone_RowsOpen ==
    /\ db.pc = "tablesNext"
    /\ \E outcome \in RowOutcomes :
         LET call == Call("Err", "tables", db.t, 0, outcome)
         IN  IF outcome = ""
               THEN /\ db.t = Len(catalog.Tables)
                    /\ db' = [db EXCEPT !.pc = "build"]
                    /\ calls' = Append(calls, call)
                    /\ tables' = db.tables
                    /\ input' = db.tables
                    /\ tableMap' = <<>>
                    /\ pc' = "map"
                    /\ i' = 1
                    /\ j' = 1
                    /\ UNCHANGED <<querier, catalog, result>>
               ELSE Fail("error iterating table rows", call)
    /\ UNCHANGED cliVars

\* rows.Next() is false: rows.Err(), lines 223-227; on success getTables
\* returns, its rows are closed, and GetDBInfo stores the tables and calls
\* buildRelationships, lines 104-111.
TablesDone ==
    /\ db.pc = "tablesNext"
    /\ \E outcome \in RowOutcomes :
         LET call == Call("Err", "tables", db.t, 0, outcome)
         IN  IF outcome = ""
               THEN /\ db.t = Len(catalog.Tables)
                    /\ db' = [db EXCEPT !.pc = "build", !.open = @ \ {"tables"}]
                    /\ calls' = Append(calls, call)
                    /\ tables' = db.tables
                    /\ input' = db.tables
                    /\ tableMap' = <<>>
                    /\ pc' = "map"
                    /\ i' = 1
                    /\ j' = 1
                    /\ UNCHANGED <<querier, catalog, result>>
               ELSE Fail("error iterating table rows", call)
    /\ UNCHANGED cliVars

\* rows, err := db.Query(ctx, query, schema, tableName); defer rows.Close():
\* lines 254-260 of getColumns, 322-328 of getIndexes, 390-396 of
\* getForeignKeys.
ReaderQuery(reader) ==
    /\ db.pc = reader
    /\ \E outcome \in QueryOutcomes :
         LET call == Call("Query", reader, db.t, 0, outcome)
         IN  IF outcome = ""
               THEN /\ db' = [db EXCEPT !.pc = reader \o "Next", !.k = 0,
                                        !.open = @ \cup {reader}, !.rows = <<>>]
                    /\ calls' = Append(calls, call)
                    /\ UNCHANGED <<querier, catalog, result, builderVars>>
               ELSE Fail("failed to query " \o Plural(reader) \o " for "
                           \o db.table.Schema \o "." \o db.table.Name, call)
    /\ UNCHANGED cliVars

\* rows.Next() is true; rows.Scan, the NULL handling and the append: lines
\* 261-289, 329-351, 397-416.
ReaderScan(reader) ==
    /\ db.pc = reader \o "Next"
    /\ db.k < Len(catalog.Tables[db.t][reader])
    /\ \E outcome \in RowOutcomes :
         LET call == Call("Scan", reader, db.t, db.k + 1, outcome)
         IN  IF outcome = ""
               THEN /\ db' = [db EXCEPT !.k = @ + 1,
                                 !.rows = Append(@, Scanned(reader,
                                             catalog.Tables[db.t][reader][db.k + 1]))]
                    /\ calls' = Append(calls, call)
                    /\ UNCHANGED <<querier, catalog, result, builderVars>>
               ELSE Fail("failed to scan " \o Singular(reader) \o " row", call)
    /\ UNCHANGED cliVars

\* rows.Next() is false: rows.Err(), the reader returns and its rows are
\* closed (lines 291-295, 353-357, 418-422); getTables stores what it
\* returned (lines 204, 211, 218) and, after the last reader, appends the
\* table (line 220).
ReaderDone(reader) ==
    /\ db.pc = reader \o "Next"
    /\ \E outcome \in RowOutcomes :
         LET call  == Call("Err", reader, db.t, db.k, outcome)
             table == WithRows(db.table, reader, db.rows)
         IN  IF outcome = ""
               THEN /\ db.k = Len(catalog.Tables[db.t][reader])
                    /\ db' = [db EXCEPT !.pc = After(reader),
                                        !.open = @ \ {reader},
                                        !.table = table,
                                        !.tables = IF reader = "foreignKeys"
                                                     THEN Append(@, table) ELSE @]
                    /\ calls' = Append(calls, call)
                    /\ UNCHANGED <<querier, catalog, result, builderVars>>
               ELSE Fail("error iterating " \o Singular(reader) \o " rows", call)
    /\ UNCHANGED cliVars

GetColumnsQuery == ReaderQuery("columns")

GetColumnsScan == ReaderScan("columns")

GetColumnsDone == ReaderDone("columns")

GetIndexesQuery == ReaderQuery("indexes")

GetIndexesScan == ReaderScan("indexes")

GetIndexesDone == ReaderDone("indexes")

GetForeignKeysQuery == ReaderQuery("foreignKeys")

GetForeignKeysScan == ReaderScan("foreignKeys")

GetForeignKeysDone == ReaderDone("foreignKeys")

\* buildRelationships has returned: return dbInfo, nil (line 113).
GetDBInfoReturn ==
    /\ db.pc = "build"
    /\ pc = "done"
    /\ result' = [returned |-> TRUE, isNil |-> FALSE, err |-> NoError,
                  Name |-> db.name, Tables |-> tables]
    /\ db' = [db EXCEPT !.pc = "returned"]
    /\ UNCHANGED <<querier, catalog, calls, builderVars, cliVars>>

NextDB ==
    \/ QueryDatabaseName
    \/ QueryTables
    \/ ScanTable
    \/ TablesDone
    \/ GetColumnsQuery
    \/ GetColumnsScan
    \/ GetColumnsDone
    \/ GetIndexesQuery
    \/ GetIndexesScan
    \/ GetIndexesDone
    \/ GetForeignKeysQuery
    \/ GetForeignKeysScan
    \/ GetForeignKeysDone
    \/ MapTable
    \/ MapDone
    \/ ProcessForeignKey
    \/ NextTable
    \/ Return
    \/ GetDBInfoReturn

SpecDB == InitDB /\ [][NextDB]_vars

\* --------------------------------------------------------------- main

\* The connection strings given on the command line or in DATABASE_URL.
ArgDSN == "postgres://arg/shop"

EnvDSN == "postgres://env/shop"

\* os.Args: the program name, then no, one or two arguments, empty or not.
ArgLists ==
    {<<"dbinfo">>} \cup
    {<<"dbinfo", a>> : a \in {"", ArgDSN}} \cup
    {<<"dbinfo", a, b>> : a \in {"", ArgDSN}, b \in {"", ArgDSN}}

\* os.Getenv("DATABASE_URL"): "" when unset or set to nothing.
EnvValues == {"", EnvDSN}

\* DATABASE_URL wins over the argument whenever it is set.
DSNOf_EnvFirst(args, env) == IF env # "" THEN env ELSE IF Len(args) > 1 THEN args[2] ELSE env

\* dsn := os.Getenv("DATABASE_URL"); if len(os.Args) > 1 { dsn = os.Args[1] }
\* (os.Args[0], the program name, is args[1] here).
DSNOf(args, env) == IF Len(args) > 1 THEN args[2] ELSE env

\* How dbinfo.FromString may end: "" is a pool.
ConnectOutcomes == {"", "invalid connection string"}

\* What %v prints for an error made by fmt.Errorf("...: %w", err).
ErrorText(e) == e.msg \o ": " \o e.cause

\* How yaml.v3 writes a bool.
Bool(b) == IF b THEN "true" ELSE "false"

\* A mapping entry of the YAML output, and one left out when its value is
\* the zero value of its type (the omitempty flag).
Field(key, value) == << <<key, value>> >>

OmitEmpty(key, value, isZero) == IF isZero THEN <<>> ELSE << <<key, value>> >>

\* type RelationshipYAML struct and the copy made of a relationship, lines
\* 61-69 and 77-85.
RelationshipYAML(rel) ==
    [Table      |-> rel.Table,
     Schema     |-> rel.Schema,
     ForeignKey |-> rel.ForeignKey,
     Columns    |-> rel.Columns,
     References |-> rel.References,
     OnUpdate   |-> rel.OnUpdate,
     OnDelete   |-> rel.OnDelete]

\* if len(rels) > 0 { make and fill }: otherwise the field stays nil.
ConvertRelationships(rels) ==
    IF Len(rels.elems) > 0
      THEN [isNil |-> FALSE,
            elems |-> [n \in DOMAIN rels.elems |-> RelationshipYAML(rels.elems[n])]]
      ELSE NilSlice

\* yamlTable := &TableYAML{...} and the two conversions, lines 48-87.
TableYAML(table) ==
    [Name        |-> table.Name,
     Schema      |-> table.Schema,
     Columns     |-> table.Columns,
     Indexes     |-> table.Indexes,
     ForeignKeys |-> table.ForeignKeys,
     HasMany     |-> ConvertRelationships(table.HasMany),
     BelongsTo   |-> ConvertRelationships(table.BelongsTo),
     Comment     |-> table.Comment]

\* convertToYAML
ConvertToYAML(info) ==
    [Name   |-> info.Name,
     Tables |-> [k \in DOMAIN info.Tables |-> TableYAML(info.Tables[k])]]

\* yaml.Marshal of the structs of package dbinfo, which carry no tags: every
\* field is written, under its name in lower case.
MarshalColumn(c) ==
    Field("name", c.Name) \o Field("type", c.Type) \o
    Field("isnullable", Bool(c.IsNullable)) \o
    Field("defaultvalue", c.DefaultValue) \o
    Field("comment", c.Comment) \o
    Field("isprimarykey", Bool(c.IsPrimaryKey))

MarshalIndex(x) ==
    Field("name", x.Name) \o Field("unique", Bool(x.Unique)) \o
    Field("columns", x.Columns) \o Field("expression", x.Expression)

MarshalForeignKey(fk) ==
    Field("name", fk.Name) \o Field("columnnames", fk.ColumnNames) \o
    Field("reftableschema", fk.RefTableSchema) \o
    Field("reftablename", fk.RefTableName) \o
    Field("refcolumnnames", fk.RefColumnNames) \o
    Field("onupdate", fk.OnUpdate) \o Field("ondelete", fk.OnDelete)

\* yaml.Marshal of a RelationshipYAML, by its tags (lines 31-39).
MarshalRelationship(rel) ==
    Field("table", rel.Table) \o Field("schema", rel.Schema) \o
    Field("foreignkey", rel.ForeignKey) \o
    Field("columns", rel.Columns) \o Field("references", rel.References) \o
    OmitEmpty("onupdate", rel.OnUpdate, rel.OnUpdate = "") \o
    OmitEmpty("ondelete", rel.OnDelete, rel.OnDelete = "")

\* yaml.Marshal of a TableYAML, by its tags (lines 20-29): a slice tagged
\* omitempty is left out when its length is 0, nil or not.
MarshalTable(t) ==
    Field("name", t.Name) \o Field("schema", t.Schema) \o
    OmitEmpty("columns", [n \in DOMAIN t.Columns |-> MarshalColumn(t.Columns[n])],
              Len(t.Columns) = 0) \o
    OmitEmpty("indexes", [n \in DOMAIN t.Indexes |-> MarshalIndex(t.Indexes[n])],
              Len(t.Indexes) = 0) \o
    OmitEmpty("foreignkeys",
              [n \in DOMAIN t.ForeignKeys |-> MarshalForeignKey(t.ForeignKeys[n])],
              Len(t.ForeignKeys) = 0) \o
    OmitEmpty("hasmany",
              [n \in DOMAIN t.HasMany.elems |-> MarshalRelationship(t.HasMany.elems[n])],
              Len(t.HasMany.elems) = 0) \o
    OmitEmpty("belongsto",
              [n \in DOMAIN t.BelongsTo.elems |-> MarshalRelationship(t.BelongsTo.elems[n])],
              Len(t.BelongsTo.elems) = 0) \o
    OmitEmpty("comment", t.Comment, t.Comment = "")

\* yaml.Marshal of a DBInfoYAML, by its tags (lines 15-18): the document as
\* a mapping, a sequence of <<key, value>> in the order written.
Marshal(yamlInfo) ==
    Field("name", yamlInfo.Name) \o
    Field("tables", [k \in DOMAIN yamlInfo.Tables |-> MarshalTable(yamlInfo.Tables[k])])

\* The command is started against some database.
InitCLI ==
    /\ os \in [Args : ArgLists, Env : EnvValues]
    /\ cli = [pc |-> "start", dsn |-> "", exit |-> -1, stdout |-> <<>>,
              stderr |-> <<>>, connects |-> 0]
    /\ querier = "pool"
    /\ catalog \in Catalogs
    /\ db = [pc |-> "idle"]
    /\ calls = <<>>
    /\ result = [returned |-> FALSE]
    /\ tables = <<>>
    /\ input = <<>>
    /\ tableMap = <<>>
    /\ pc = "idle"
    /\ i = 1
    /\ j = 1

\* Lines 97-100.
ReadDSN ==
    /\ cli.pc = "start"
    /\ cli' = [cli EXCEPT !.pc = "check", !.dsn = DSNOf(os.Args, os.Env)]
    /\ UNCHANGED <<os, dbVars, builderVars>>

\* Lines 102-107: three lines on standard output, os.Exit(1).
NoDSN ==
    /\ cli.pc = "check"
    /\ cli.dsn = ""
    /\ cli' = [cli EXCEPT !.pc = "exited", !.exit = 1,
                          !.stdout = @ \o <<"Error: No database connection string provided",
                                            "Usage: dbinfo [connection_string]",
                                            "  or set the DATABASE_URL environment variable">>]
    /\ UNCHANGED <<os, dbVars, builderVars>>

\* Lines 109-120: dbinfo.FromString(ctx, dsn); on error a line on standard
\* error and os.Exit(1), otherwise GetDBInfo is called with the pool.
Connect ==
    /\ cli.pc = "check"
    /\ cli.dsn # ""
    /\ \E outcome \in ConnectOutcomes :
         IF outcome = ""
           THEN /\ cli' = [cli EXCEPT !.pc = "getDBInfo", !.connects = @ + 1]
                /\ db' = Entered
           ELSE /\ cli' = [cli EXCEPT !.pc = "exited", !.exit = 1, !.connects = @ + 1,
                             !.stderr = Append(@, "Error connecting to database: " \o
                                 ErrorText(Errorf("failed to connect to database", outcome)))]
                /\ db' = db
    /\ UNCHANGED <<os, querier, catalog, calls, result, builderVars>>

\* Lines 121-124: GetDBInfo returned an error.
GetDBInfoFailed ==
    /\ cli.pc = "getDBInfo"
    /\ result.returned
    /\ ~result.err.isNil
    /\ cli' = [cli EXCEPT !.pc = "exited", !.exit = 1,
                 !.stderr = Append(@, "Error getting database info: " \o ErrorText(result.err))]
    /\ UNCHANGED <<os, dbVars, builderVars>>

\* Lines 127-137: convertToYAML, yaml.Marshal (which has no error to report
\* for these types), the document on standard output, exit status 0.
PrintYAML ==
    /\ cli.pc = "getDBInfo"
    /\ result.returned
    /\ result.err.isNil
    /\ cli' = [cli EXCEPT !.pc = "exited", !.exit = 0,
                 !.stdout = Append(@, Marshal(ConvertToYAML(result)))]
    /\ UNCHANGED <<os, dbVars, builderVars>>

NextCLI ==
    \/ ReadDSN
    \/ NoDSN
    \/ Connect
    \/ NextDB
    \/ GetDBInfoFailed
    \/ PrintYAML

SpecCLI == InitCLI /\ [][NextCLI]_vars

\* ------------------------------------------------------------- claims

\* buildRelationships has returned.
Done == pc = "done"

\* The set of elements of a sequence.
Range(s) == {s[k] : k \in DOMAIN s}

\* Foreign key fk names table tab as its target.
Refers(fk, tab) ==
    /\ fk.RefTableSchema = tab.Schema
    /\ fk.RefTableName = tab.Name

\* No two tables of the input share the pair <<schema, name>>.
UniqueKeys ==
    \A a, b \in DOMAIN input :
        a # b => <<input[a].Schema, input[a].Name>> # <<input[b].Schema, input[b].Name>>

\* No relationship list of the input holds an entry.
NoInputEntries ==
    \A t \in DOMAIN input :
        /\ input[t].HasMany.elems = <<>>
        /\ input[t].BelongsTo.elems = <<>>

\* The foreign keys of the input, as pairs <<table index, key index>>.
DeclaredFKs ==
    {<<t, k>> \in (1..MaxTables) \X (1..MaxForeignKeys) :
        t \in DOMAIN input /\ k \in DOMAIN input[t].ForeignKeys}

\* The foreign keys of the input whose target is table r.
IncomingFKs(r) == {tk \in DeclaredFKs : Refers(input[tk[1]].ForeignKeys[tk[2]], input[r])}

\* Foreign key fk has no target among the input tables.
Dangling(fk) == \A r \in DOMAIN input : ~Refers(fk, input[r])

\* Entry e is the BelongsTo entry of foreign key fk.
IsBelongsToEntry(e, fk) ==
    /\ e.Table = fk.RefTableName
    /\ e.Schema = fk.RefTableSchema
    /\ e.ForeignKey = fk.Name
    /\ e.Columns = fk.ColumnNames
    /\ e.References = fk.RefColumnNames
    /\ e.OnUpdate = fk.OnUpdate
    /\ e.OnDelete = fk.OnDelete

\* Entry e is the HasMany entry of foreign key fk declared on table tab.
IsHasManyEntry(e, tab, fk) ==
    /\ e.Table = tab.Name
    /\ e.Schema = tab.Schema
    /\ e.ForeignKey = fk.Name
    /\ (fk.Name # "" => e.ForeignKey # "")
    /\ e.Columns = fk.RefColumnNames
    /\ e.References = fk.ColumnNames
    /\ e.OnUpdate = fk.OnUpdate
    /\ e.OnDelete = fk.OnDelete

\* C1: with unique <<schema, name>> keys and no relationship entries on
\* input, after the return every table has as many BelongsTo entries as
\* foreign keys and as many HasMany entries as there are foreign keys, over
\* all tables, whose <<ref_schema, ref_table>> is the table's <<schema, name>>.
C1_EntryCounts ==
    (Done /\ UniqueKeys /\ NoInputEntries) =>
        \A t \in DOMAIN tables :
            /\ Len(tables[t].BelongsTo.elems) = Len(input[t].ForeignKeys)
            /\ Len(tables[t].HasMany.elems) = Cardinality(IncomingFKs(t))

\* C2: after the return HasMany and BelongsTo of every table are non-nil.
C2_NonNilLists ==
    Done => \A t \in DOMAIN tables :
                /\ ~tables[t].HasMany.isNil
                /\ ~tables[t].BelongsTo.isNil

\* C2 witness: the call has returned for a table that came in with nil lists,
\* declares no foreign key and is the target of none.
C2_Witness ==
    /\ Done
    /\ \E t \in DOMAIN tables :
          /\ input[t].HasMany.isNil
          /\ input[t].BelongsTo.isNil
          /\ input[t].ForeignKeys = <<>>
          /\ tables[t].HasMany.elems = <<>>
          /\ tables[t].BelongsTo.elems = <<>>

\* C3: after the return, for every foreign key of every table, the table's
\* BelongsTo holds, after the entries it came in with, an entry with the
\* key's ref_table, ref_schema, name, columns, ref_columns, on_update and
\* on_delete, whether or not the referenced table is among the input.
C3_BelongsToEntry ==
    Done => \A tk \in DeclaredFKs :
                LET fk  == input[tk[1]].ForeignKeys[tk[2]]
                    old == Len(input[tk[1]].BelongsTo.elems)
                    new == tables[tk[1]].BelongsTo.elems
                IN  \E p \in DOMAIN new : p > old /\ IsBelongsToEntry(new[p], fk)

\* C3 witness: the call has returned for an input that holds a foreign key
\* with a target among the tables and one with none, both on two columns.
C3_Witness ==
    /\ Done
    /\ \E a, b \in DeclaredFKs :
          /\ Dangling(input[a[1]].ForeignKeys[a[2]])
          /\ ~Dangling(input[b[1]].ForeignKeys[b[2]])
          /\ Len(input[a[1]].ForeignKeys[a[2]].ColumnNames) = 2
          /\ Len(input[b[1]].ForeignKeys[b[2]].ColumnNames) = 2

\* C4: after the return, for every foreign key of a table T whose referenced
\* table R is among the input (keys unique), R.HasMany holds an entry with
\* T's name and schema, the key's name, ref_columns as local and columns as
\* related columns, and the key's on_update and on_delete.
C4_HasManyEntry ==
    (Done /\ UniqueKeys) =>
        \A tk \in DeclaredFKs : \A r \in DOMAIN input :
            LET fk == input[tk[1]].ForeignKeys[tk[2]]
                hm == tables[r].HasMany.elems
            IN  Refers(fk, input[r]) =>
                    \E p \in DOMAIN hm : IsHasManyEntry(hm[p], input[tk[1]], fk)

\* Some list of some table holds an entry made from foreign key k of table t.
EntryFrom(t, k) ==
    \E r \in DOMAIN tables : \E p \in DOMAIN tables[r].HasMany.elems :
        LET e == tables[r].HasMany.elems[p]
        IN  /\ e.Table = input[t].Name
            /\ e.Schema = input[t].Schema
            /\ e.ForeignKey = input[t].ForeignKeys[k].Name

\* C5: after the return (it always returns, there is no error result), a
\* foreign key whose <<ref_schema, ref_table>> matches no input table has its
\* BelongsTo entry on its table and no entry in the HasMany of any table.
C5_DanglingTolerated ==
    (Done /\ UniqueKeys) =>
        \A tk \in DeclaredFKs :
            LET fk == input[tk[1]].ForeignKeys[tk[2]]
                bt == tables[tk[1]].BelongsTo.elems
            IN  Dangling(fk) =>
                    /\ \E p \in DOMAIN bt : IsBelongsToEntry(bt[p], fk)
                    /\ ~EntryFrom(tk[1], tk[2])

\* C6: after the return, a table whose single foreign key references the
\* table itself, and that no other foreign key references, has exactly one
\* BelongsTo entry and exactly one HasMany entry, both naming the table.
C6_SelfReference ==
    (Done /\ UniqueKeys /\ NoInputEntries) =>
        \A t \in DOMAIN tables :
            (/\ Len(input[t].ForeignKeys) = 1
             /\ Refers(input[t].ForeignKeys[1], input[t])
             /\ IncomingFKs(t) = {<<t, 1>>})
            => /\ Len(tables[t].BelongsTo.elems) = 1
               /\ Len(tables[t].HasMany.elems) = 1
               /\ tables[t].BelongsTo.elems[1].Table = input[t].Name
               /\ tables[t].BelongsTo.elems[1].Schema = input[t].Schema
               /\ tables[t].HasMany.elems[1].Table = input[t].Name
               /\ tables[t].HasMany.elems[1].Schema = input[t].Schema

\* C7: after the return, two distinct foreign keys of table T that both
\* reference table R have two separate entries in T.BelongsTo and two
\* separate entries in R.HasMany, told apart by the foreign-key name.
C7_Multiplicity ==
    (Done /\ UniqueKeys) =>
        \A t, r \in DOMAIN tables : \A k1, k2 \in DOMAIN input[t].ForeignKeys :
            LET fk1 == input[t].ForeignKeys[k1]
                fk2 == input[t].ForeignKeys[k2]
                bt  == tables[t].BelongsTo.elems
                hm  == tables[r].HasMany.elems
            IN  (k1 # k2 /\ Refers(fk1, input[r]) /\ Refers(fk2, input[r])) =>
                    /\ \E p1, p2 \in DOMAIN bt :
                          /\ p1 # p2
                          /\ IsBelongsToEntry(bt[p1], fk1)
                          /\ IsBelongsToEntry(bt[p2], fk2)
                          /\ bt[p1].ForeignKey # bt[p2].ForeignKey
                    /\ \E q1, q2 \in DOMAIN hm :
                          /\ q1 # q2
                          /\ IsHasManyEntry(hm[q1], input[t], fk1)
                          /\ IsHasManyEntry(hm[q2], input[t], fk2)
                          /\ hm[q1].ForeignKey # hm[q2].ForeignKey

Prefix(a, b) == Len(a) <= Len(b) /\ SubSeq(b, 1, Len(a)) = a

Added(before, now) == {now[p] : p \in (DOMAIN now) \ (DOMAIN before)}

\* C9: buildRelationships never returns normally having made a relationship
\* entry whose local and related column lists differ in length.
C9_LengthMismatchReported ==
    Done => \A t \in DOMAIN tables :
                \A e \in Added(input[t].BelongsTo.elems, tables[t].BelongsTo.elems)
                         \cup Added(input[t].HasMany.elems, tables[t].HasMany.elems) :
                    Len(e.Columns) = Len(e.References)

\* C10: after the return, for every foreign key of a table T whose referenced
\* table R is among the input (keys unique), T.BelongsTo holds an entry for
\* the key and R.HasMany holds an entry for the key such that the local
\* columns of the first are the related columns of the second (the key's
\* columns) and the related columns of the first are the local columns of the
\* second (the key's ref_columns).
C10_ColumnRoundTrip ==
    (Done /\ UniqueKeys) =>
        \A tk \in DeclaredFKs : \A r \in DOMAIN input :
            LET fk == input[tk[1]].ForeignKeys[tk[2]]
                bt == tables[tk[1]].BelongsTo.elems
                hm == tables[r].HasMany.elems
            IN  Refers(fk, input[r]) =>
                    \E p \in DOMAIN bt : \E q \in DOMAIN hm :
                        /\ bt[p].ForeignKey = fk.Name
                        /\ bt[p].Table = input[r].Name
                        /\ bt[p].Schema = input[r].Schema
                        /\ hm[q].ForeignKey = fk.Name
                        /\ hm[q].Table = input[tk[1]].Name
                        /\ hm[q].Schema = input[tk[1]].Schema
                        /\ bt[p].Columns = hm[q].References
                        /\ bt[p].Columns = fk.ColumnNames
                        /\ bt[p].References = hm[q].Columns
                        /\ bt[p].References = fk.RefColumnNames

\* ------------------------------------------------ claims (C11 to C20)

\* C11: after the return (keys unique, no entries on input), a table that
\* declares no foreign key and that no foreign key of any table references
\* has HasMany and BelongsTo both empty and non-nil.
C11_UnrelatedTableEmpty ==
    (Done /\ UniqueKeys /\ NoInputEntries) =>
        \A t \in DOMAIN tables :
            (input[t].ForeignKeys = <<>> /\ IncomingFKs(t) = {}) =>
                /\ tables[t].HasMany = EmptySlice
                /\ tables[t].BelongsTo = EmptySlice

\* C12: after the return, the k-th entry that a table's BelongsTo gained
\* (the k-th entry of the list when the list came in without entries) is the
\* entry of the table's k-th foreign key, and it gained no other entry.
C12_BelongsToOrder ==
    Done => \A t \in DOMAIN tables :
                LET old == Len(input[t].BelongsTo.elems)
                    new == tables[t].BelongsTo.elems
                IN  /\ Len(new) = old + Len(input[t].ForeignKeys)
                    /\ \A k \in DOMAIN input[t].ForeignKeys :
                           IsBelongsToEntry(new[old + k], input[t].ForeignKeys[k])

\* C12 witness: the call has returned for a table that came in without
\* entries and declares two foreign keys with different targets.
C12_Witness ==
    /\ Done
    /\ \E t \in DOMAIN tables :
          /\ input[t].BelongsTo.elems = <<>>
          /\ Len(input[t].ForeignKeys) = 2
          /\ input[t].ForeignKeys[1].RefTableName # input[t].ForeignKeys[2].RefTableName
          /\ Len(tables[t].BelongsTo.elems) = 2

\* HasMany entry e was made from foreign key tk = <<table index, key index>>
\* (keys unique: table and constraint name identify the key).
IsOrigin(tk, e) ==
    /\ input[tk[1]].Name = e.Table
    /\ input[tk[1]].Schema = e.Schema
    /\ input[tk[1]].ForeignKeys[tk[2]].Name = e.ForeignKey

\* Foreign key a is visited before foreign key b: an earlier table, or the
\* same table and an earlier key.
VisitedBefore(a, b) == a[1] < b[1] \/ (a[1] = b[1] /\ a[2] < b[2])

\* C13: after the return (keys unique), the entries a table's HasMany
\* gained are in the order in which their foreign keys are visited, table by
\* table and, within a table, key by key.
C13_HasManyOrder ==
    (Done /\ UniqueKeys) =>
        \A r \in DOMAIN tables :
            LET old == Len(input[r].HasMany.elems)
                new == tables[r].HasMany.elems
            IN  \A p, q \in DOMAIN new :
                    (old < p /\ p < q) =>
                        \E a, b \in DeclaredFKs :
                            /\ IsOrigin(a, new[p])
                            /\ IsOrigin(b, new[q])
                            /\ VisitedBefore(a, b)

\* C13 witness: the call has returned and some HasMany holds an entry from
\* the first table followed by an entry from the second table.
C13_Witness ==
    /\ Done
    /\ UniqueKeys
    /\ Len(input) >= 2
    /\ \E r \in DOMAIN tables :
          LET new == tables[r].HasMany.elems
          IN  /\ input[r].HasMany.elems = <<>>
              /\ Len(new) = 2
              /\ \E k \in DOMAIN input[1].ForeignKeys : IsOrigin(<<1, k>>, new[1])
              /\ \E k \in DOMAIN input[2].ForeignKeys : IsOrigin(<<2, k>>, new[2])

\* C20: after the return (keys unique), every entry a table R's HasMany
\* gained comes from a foreign key whose ref_schema is R's schema and whose
\* ref_table is R's name, whatever characters the identifiers hold.
C20_TargetBySchemaAndName ==
    (Done /\ UniqueKeys) =>
        \A r \in DOMAIN tables :
            \A e \in Added(input[r].HasMany.elems, tables[r].HasMany.elems) :
                \E tk \in DeclaredFKs :
                    /\ Refers(input[tk[1]].ForeignKeys[tk[2]], input[r])
                    /\ e.Table = input[tk[1]].Name
                    /\ e.Schema = input[tk[1]].Schema
                    /\ e.ForeignKey = input[tk[1]].ForeignKeys[tk[2]].Name

\* The table of the slice with the given name.
TableNamed(name) == CHOOSE t \in Range(tables) : t.Name = name

\* A relationship entry between two tables of schema public that pairs the
\* given columns.
FixtureEntry(table, fkName, columns, references, onDelete) ==
    [Table      |-> table,
     Schema     |-> "public",
     ForeignKey |-> fkName,
     Columns    |-> columns,
     References |-> references,
     OnUpdate   |-> "NO ACTION",
     OnDelete   |-> onDelete]

\* C15: for the fixture schema, after the return: categories has the single
\* HasMany entry to products ([id] -> [category_id], CASCADE) and no
\* BelongsTo; products has one BelongsTo (categories) and one HasMany
\* (order_items, RESTRICT); customers has one HasMany (orders, NO ACTION);
\* orders has one BelongsTo (customers) and one HasMany (order_items,
\* CASCADE); order_items has the two BelongsTo entries (orders, products)
\* and no HasMany.
C15_FixtureRelationships ==
    Done =>
        /\ TableNamed("categories").HasMany.elems =
             << FixtureEntry("products", "products_category_id_fkey",
                             <<"id">>, <<"category_id">>, "CASCADE") >>
        /\ TableNamed("categories").BelongsTo = EmptySlice
        /\ TableNamed("products").BelongsTo.elems =
             << FixtureEntry("categories", "products_category_id_fkey",
                             <<"category_id">>, <<"id">>, "CASCADE") >>
        /\ TableNamed("products").HasMany.elems =
             << FixtureEntry("order_items", "order_items_product_id_fkey",
                             <<"id">>, <<"product_id">>, "RESTRICT") >>
        /\ TableNamed("customers").HasMany.elems =
             << FixtureEntry("orders", "orders_customer_id_fkey",
                             <<"id">>, <<"customer_id">>, "NO ACTION") >>
        /\ TableNamed("customers").BelongsTo = EmptySlice
        /\ TableNamed("orders").BelongsTo.elems =
             << FixtureEntry("customers", "orders_customer_id_fkey",
                             <<"customer_id">>, <<"id">>, "NO ACTION") >>
        /\ TableNamed("orders").HasMany.elems =
             << FixtureEntry("order_items", "order_items_order_id_fkey",
                             <<"id">>, <<"order_id">>, "CASCADE") >>
        /\ TableNamed("order_items").BelongsTo.elems =
             << FixtureEntry("orders", "order_items_order_id_fkey",
                             <<"order_id">>, <<"id">>, "CASCADE"),
                FixtureEntry("products", "order_items_product_id_fkey",
                             <<"product_id">>, <<"id">>, "RESTRICT") >>
        /\ TableNamed("order_items").HasMany = EmptySlice

\* C15 witness: the call has returned for the five tables of the fixture in
\* the order the catalog query lists them.
C15_Witness ==
    /\ Done
    /\ [k \in DOMAIN tables |-> tables[k].Name] =
         <<"categories", "customers", "order_items", "orders", "products">>
    /\ Len(TableNamed("order_items").BelongsTo.elems) = 2

\* GetDBInfo has returned to its caller.
Returned == result.returned

\* The calls that ended with an error, by their place in the log.
FailedCalls == {n \in DOMAIN calls : calls[n].err # ""}

\* No call ended with a failure of the database or of the network.
NoFault == \A n \in DOMAIN calls : calls[n].err \notin Causes

\* What the catalog holds for its k-th table, as GetDBInfo reports it.
Described(k, table) ==
    /\ table.Schema = catalog.Tables[k].Schema
    /\ table.Name = catalog.Tables[k].Name
    /\ table.Comment = Deref(catalog.Tables[k].Comment)
    /\ \A reader \in Range(Readers) :
         LET rows == catalog.Tables[k][reader]
             got  == CASE reader = "columns" -> table.Columns
                       [] reader = "indexes" -> table.Indexes
                       [] reader = "foreignKeys" -> table.ForeignKeys
         IN  got = [n \in DOMAIN rows |-> Scanned(reader, rows[n])]
    /\ ~table.HasMany.isNil
    /\ ~table.BelongsTo.isNil

\* GetDBInfo returned no error and a DBInfo with every table of the catalog.
FullSchema ==
    /\ result.err = NoError
    /\ ~result.isNil
    /\ result.Name = catalog.Name
    /\ Len(result.Tables) = Len(catalog.Tables)
    /\ \A k \in DOMAIN result.Tables : Described(k, result.Tables[k])

\* C17: run on a single connection, which cannot start a query while the
\* result set of an earlier query is open, GetDBInfo on a database with at
\* least one table returns without error and with the full schema, unless the
\* database or the network failed.
C17_SingleConnectionCompletes ==
    (Returned /\ querier = "conn" /\ Len(catalog.Tables) >= 1 /\ NoFault)
        => FullSchema

\* Run on a pool, GetDBInfo returns the full schema unless the database or the
\* network failed; run on a single connection it does so for a database
\* without tables.
PoolCompletes ==
    (Returned /\ NoFault /\ (querier = "pool" \/ Len(catalog.Tables) = 0))
        => FullSchema

\* C18 (as stated): when a catalog operation fails, the error GetDBInfo
\* returns is that failure, with nothing put around it.
C18_FailureUnmodified ==
    Returned =>
        \A n \in FailedCalls :
            result.err = [isNil |-> FALSE, msg |-> "", cause |-> calls[n].err]

\* The same call on the same result set for the same row.
SameCall(a, b) ==
    /\ a.op = b.op
    /\ a.on = b.on
    /\ a.table = b.table
    /\ a.row = b.row

\* C18 (amended): when a catalog operation fails, GetDBInfo returns no DBInfo
\* and an error that wraps the failure under a message saying what was being
\* done; the failed call is the last call made and was made once.
C18_FailureWrapped ==
    Returned =>
        \A n \in FailedCalls :
            /\ result.isNil
            /\ ~result.err.isNil
            /\ result.err.cause = calls[n].err
            /\ result.err.msg # ""
            /\ n = Len(calls)
            /\ \A m \in 1..(n - 1) : ~SameCall(calls[m], calls[n])

\* GetDBInfo has returned after the indexes query of the second table timed
\* out, the columns of that table and the whole first table already read.
C18_Witness ==
    /\ Returned
    /\ querier = "pool"
    /\ calls # <<>>
    /\ calls[Len(calls)] = Call("Query", "indexes", 2, 0, "timeout")
    /\ result.err.cause = "timeout"
    /\ Len(db.tables) = 1

\* The command has ended.
Exited == cli.pc = "exited"

\* The mapping has an entry under the key.
HasKey(node, key) == \E n \in DOMAIN node : node[n][1] = key

\* The value the mapping holds under the key.
ValueOf(node, key) == node[CHOOSE n \in DOMAIN node : node[n][1] = key][2]

\* The tables of the document printed on standard output.
PrintedTables == ValueOf(cli.stdout[1], "tables")

\* C16: in the output of the command every table carries both relationship
\* lists; a list without relationships is written as an empty sequence, the
\* key is never left out.
C16_EmptyListsRendered ==
    (Exited /\ cli.exit = 0) =>
        \A k \in DOMAIN PrintedTables :
            /\ HasKey(PrintedTables[k], "hasmany")
            /\ HasKey(PrintedTables[k], "belongsto")
            /\ Len(result.Tables[k].HasMany.elems) = 0
                 => ValueOf(PrintedTables[k], "hasmany") = <<>>
            /\ Len(result.Tables[k].BelongsTo.elems) = 0
                 => ValueOf(PrintedTables[k], "belongsto") = <<>>

\* The output has one table per table of the DBInfo, in its order, and
\* writes a relationship list that has entries under its key, one entry per
\* relationship.
ListsWithEntriesRendered ==
    (Exited /\ cli.exit = 0) =>
        /\ Len(PrintedTables) = Len(result.Tables)
        /\ \A k \in DOMAIN PrintedTables :
             /\ ValueOf(PrintedTables[k], "name") = result.Tables[k].Name
             /\ Len(result.Tables[k].HasMany.elems) > 0 =>
                  /\ HasKey(PrintedTables[k], "hasmany")
                  /\ Len(ValueOf(PrintedTables[k], "hasmany")) =
                       Len(result.Tables[k].HasMany.elems)
             /\ Len(result.Tables[k].BelongsTo.elems) > 0 =>
                  /\ HasKey(PrintedTables[k], "belongsto")
                  /\ Len(ValueOf(PrintedTables[k], "belongsto")) =
                       Len(result.Tables[k].BelongsTo.elems)

\* C19: the connection string is the first argument when one is given,
\* otherwise DATABASE_URL; when it is empty the command prints an error and
\* the usage, exits with status 1 and never tries to connect.
C19_ConnectionString ==
    cli.pc # "start" =>
        /\ Len(os.Args) > 1 => cli.dsn = os.Args[2]
        /\ Len(os.Args) <= 1 => cli.dsn = os.Env
        /\ cli.dsn = "" =>
             /\ cli.connects = 0
             /\ db.pc = "idle"
             /\ cli.pc \in {"check", "exited"}
             /\ Exited =>
                  /\ cli.exit = 1
                  /\ Len(cli.stdout) = 3
                  /\ cli.stdout[1] = "Error: No database connection string provided"
                  /\ cli.stdout[2] = "Usage: dbinfo [connection_string]"

\* The command was given an empty first argument while DATABASE_URL was
\* set, and has exited with status 1.
C19_Witness ==
    /\ Exited
    /\ Len(os.Args) > 1
    /\ os.Args[2] = ""
    /\ os.Env = EnvDSN
    /\ cli.dsn = ""
    /\ cli.exit = 1

\* ------------------------------------------------ claims (C21 to C30)

\* GetDBInfo has returned a DBInfo and no error.
Succeeded == Returned /\ result.err.isNil

\* The table of Ledger with this schema and name.
LedgerTable(schema, name) ==
    CHOOSE t \in Range(Ledger) : t.Schema = schema /\ t.Name = name

\* The column pairs <<local column, referenced column>> of the foreign key
\* of this name as the table declares it: in fixture.sql one REFERENCES
\* clause on one column, in Ledger the FOREIGN KEY clause.
DeclaredPairs(schema, name, constraint) ==
    IF schema = "public"
      THEN LET t  == CHOOSE t \in Range(FixtureSchema) : t.Name = name
               fk == CHOOSE fk \in Range(t.ForeignKeys) : fk.Name = constraint
           IN  {<<fk.ColumnNames[1], fk.RefColumnNames[1]>>}
      ELSE LET fk == CHOOSE fk \in Range(LedgerTable(schema, name).ForeignKeys) :
                        fk.Name = constraint
           IN  {<<fk.Columns[n], fk.RefColumns[n]>> : n \in DOMAIN fk.Columns}

\* C21: every foreign key assembled by getForeignKeys over n declared
\* columns has ColumnNames and RefColumnNames of length n, ColumnNames[i]
\* being the column that references RefColumnNames[i], no column repeated.
C21_ForeignKeyColumnsPaired ==
    Succeeded =>
        \A k \in DOMAIN result.Tables :
            \A f \in DOMAIN result.Tables[k].ForeignKeys :
                LET table == result.Tables[k]
                    fk    == table.ForeignKeys[f]
                    pairs == DeclaredPairs(table.Schema, table.Name, fk.Name)
                IN  /\ Len(fk.ColumnNames) = Cardinality(pairs)
                    /\ Len(fk.RefColumnNames) = Cardinality(pairs)
                    /\ \A n \in DOMAIN fk.ColumnNames :
                         /\ n \in DOMAIN fk.RefColumnNames
                         /\ <<fk.ColumnNames[n], fk.RefColumnNames[n]>> \in pairs
                    /\ \A a, b \in DOMAIN fk.ColumnNames :
                         a # b => fk.ColumnNames[a] # fk.ColumnNames[b]

\* A foreign key over one column is assembled as declared.
SingleColumnForeignKeysPaired ==
    Succeeded =>
        \A k \in DOMAIN result.Tables :
            \A f \in DOMAIN result.Tables[k].ForeignKeys :
                LET table == result.Tables[k]
                    fk    == table.ForeignKeys[f]
                    pairs == DeclaredPairs(table.Schema, table.Name, fk.Name)
                IN  Cardinality(pairs) = 1 =>
                      /\ Len(fk.ColumnNames) = 1
                      /\ Len(fk.RefColumnNames) = 1
                      /\ <<fk.ColumnNames[1], fk.RefColumnNames[1]>> \in pairs

\* The columns of the primary key of exactly this table: id in every table
\* of fixture.sql.
DeclaredPrimaryKey(schema, name) ==
    IF schema = "public"
      THEN {"id"}
      ELSE Range(LedgerTable(schema, name).PrimaryKey.Columns)

\* C22: getColumns marks a column as primary key exactly when it belongs to
\* the primary key of the table being read, whatever the primary keys of
\* tables of the same name in other schemas hold.
C22_PrimaryKeyOfExactTable ==
    Succeeded =>
        \A k \in DOMAIN result.Tables :
            \A c \in DOMAIN result.Tables[k].Columns :
                LET table == result.Tables[k]
                IN  table.Columns[c].IsPrimaryKey <=>
                      table.Columns[c].Name \in DeclaredPrimaryKey(table.Schema, table.Name)

\* GetDBInfo has returned audit.entries and ledger.entries: both have a
\* column id and a primary key named entries_pkey, which holds id only in
\* ledger.entries.
C22_Witness ==
    /\ Succeeded
    /\ Len(result.Tables) = 2
    /\ result.Tables[1].Schema = "audit"
    /\ result.Tables[2].Schema = "ledger"
    /\ result.Tables[1].Name = result.Tables[2].Name
    /\ result.Tables[1].Columns[1].Name = "id"
    /\ ~result.Tables[1].Columns[1].IsPrimaryKey
    /\ result.Tables[2].Columns[1].Name = "id"
    /\ result.Tables[2].Columns[1].IsPrimaryKey

\* The string a field holds for what the catalog answered: the value, or
\* the empty string for SQL NULL.
Holds(field, answer) ==
    /\ answer.null => field = ""
    /\ ~answer.null => field = answer.val

\* C23: for a table comment, a column comment, a column default or an
\* index expression the catalog answers NULL for, the assembled field is the
\* empty string and GetDBInfo succeeds; for any other answer the field is
\* exactly the answer.
C23_NullIsEmptyString ==
    (Returned /\ NoFault /\ querier = "pool") =>
        /\ Succeeded
        /\ Len(result.Tables) = Len(catalog.Tables)
        /\ \A k \in DOMAIN result.Tables :
             LET table == result.Tables[k]
                 rows  == catalog.Tables[k]
             IN  /\ Holds(table.Comment, rows.Comment)
                 /\ Len(table.Columns) = Len(rows.columns)
                 /\ \A c \in DOMAIN table.Columns :
                      /\ Holds(table.Columns[c].Comment, rows.columns[c].Comment)
                      /\ Holds(table.Columns[c].DefaultValue, rows.columns[c].Default)
                 /\ Len(table.Indexes) = Len(rows.indexes)
                 /\ \A x \in DOMAIN table.Indexes :
                      Holds(table.Indexes[x].Expression, rows.indexes[x].Expression)

\* GetDBInfo has returned audit.entries, whose comment and whose first
\* column's default and comment are NULL while the second column's are not
\* and whose index is on an expression, and ledger.entries, which has a
\* comment and an index on columns.
C23_Witness ==
    /\ Succeeded
    /\ catalog.Name = "ledger"
    /\ Len(result.Tables) = 2
    /\ catalog.Tables[1].Comment.null
    /\ result.Tables[1].Comment = ""
    /\ result.Tables[2].Comment = "Ledger entries"
    /\ result.Tables[1].Columns[1].DefaultValue = ""
    /\ result.Tables[1].Columns[1].Comment = ""
    /\ result.Tables[1].Columns[2].DefaultValue # ""
    /\ result.Tables[1].Columns[2].Comment = "Position in the audit trail"
    /\ result.Tables[1].Indexes[1].Expression = "date_trunc('day'::text, at)"
    /\ catalog.Tables[2].indexes[1].Expression.null
    /\ result.Tables[2].Indexes[1].Expression = ""

\* The Name fields of a list of rows or of entries, in order.
Names(list) == [n \in DOMAIN list |-> list[n].Name]

\* C24: the tables of the DBInfo and the columns, indexes and foreign keys
\* of each table are one per row of the query that listed them, in the order
\* of the rows.
C24_RowOrderPreserved ==
    Succeeded =>
        /\ [k \in DOMAIN result.Tables |->
               <<result.Tables[k].Schema, result.Tables[k].Name>>] =
           [k \in DOMAIN catalog.Tables |->
               <<catalog.Tables[k].Schema, catalog.Tables[k].Name>>]
        /\ \A k \in DOMAIN result.Tables :
             /\ Names(result.Tables[k].Columns) = Names(catalog.Tables[k].columns)
             /\ Names(result.Tables[k].Indexes) = Names(catalog.Tables[k].indexes)
             /\ Names(result.Tables[k].ForeignKeys) = Names(catalog.Tables[k].foreignKeys)

\* GetDBInfo has returned order_items, with two columns, an index and two
\* foreign keys, followed by orders.
C24_Witness ==
    /\ Succeeded
    /\ Names(result.Tables) = <<"order_items", "orders">>
    /\ Names(result.Tables[1].Columns) = <<"id", "order_id">>
    /\ Len(result.Tables[1].Indexes) = 1
    /\ Names(result.Tables[1].ForeignKeys) =
         <<"order_items_order_id_fkey", "order_items_product_id_fkey">>

\* buildRelationships has been called (and may have returned).
BuilderCalled == pc \in {"map", "link", "done"}

\* Every table of the catalog is in tables with the rows of its three
\* queries.
Assembled ==
    /\ Len(tables) = Len(catalog.Tables)
    /\ \A k \in DOMAIN tables :
         /\ tables[k].Name = catalog.Tables[k].Name
         /\ Names(tables[k].Columns) = Names(catalog.Tables[k].columns)
         /\ Names(tables[k].Indexes) = Names(catalog.Tables[k].indexes)
         /\ Names(tables[k].ForeignKeys) = Names(catalog.Tables[k].foreignKeys)

\* C25: in GetDBInfo buildRelationships is called once, after assembly:
\* when it runs every table has its columns, indexes and foreign keys, every
\* result set is closed, and from its call on no call is made on the
\* DBQuerier or on rows; GetDBInfo does not succeed without it.
C25_BuilderAfterAssembly ==
    /\ [](BuilderCalled => (Assembled /\ db.open = {} /\ db.pc \in {"build", "returned"}))
    /\ [](Succeeded => pc = "done")
    /\ [][BuilderCalled => (calls' = calls /\ pc' # "idle")]_vars
    /\ [][(pc' = "map" /\ pc # "map") => (pc = "idle" /\ i' = 1)]_vars
    /\ [][pc = "done" => pc' = "done"]_vars

\* buildRelationships is in its second loop over the two tables GetDBInfo
\* read, the last call having been rows.Err() on the tables.
C25_Witness ==
    /\ db.pc = "build"
    /\ pc = "link"
    /\ Len(tables) = 2
    /\ i = 2
    /\ db.open = {}
    /\ calls[Len(calls)].op = "Err"
    /\ calls[Len(calls)].on = "tables"

\* The call made just before the n-th is this call on this result set for
\* this table, and it ended without error.
Preceded(n, op, on, t) ==
    /\ n > 1
    /\ calls[n - 1].op = op
    /\ calls[n - 1].on = on
    /\ calls[n - 1].table = t
    /\ calls[n - 1].err = ""

\* rows.Err() on a reader is called after all its rows were scanned.
FullyRead(n) ==
    calls[n].row = Len(catalog.Tables[calls[n].table][calls[n].on])

\* C26: for each table row getTables issues the columns query, then the
\* indexes query, then the foreign-keys query, each after the result set of
\* the one before has been read to its end and closed, and reads the next
\* table row after the three; never are more than two result sets open, the
\* one of the tables query and at most one of a per-table query.
C26_SequentialFetches ==
    /\ Cardinality(db.open) <= 2
    /\ Cardinality(db.open \ {"tables"}) <= 1
    /\ db.open \ {"tables"} # {} => "tables" \in db.open
    /\ db.pc \in Range(Readers) => db.open \subseteq {"tables"}
    /\ \A n \in DOMAIN calls :
         /\ (calls[n].op = "Query" /\ calls[n].on = "columns")
              => Preceded(n, "Scan", "tables", calls[n].table)
         /\ (calls[n].op = "Query" /\ calls[n].on = "indexes")
              => (Preceded(n, "Err", "columns", calls[n].table) /\ FullyRead(n - 1))
         /\ (calls[n].op = "Query" /\ calls[n].on = "foreignKeys")
              => (Preceded(n, "Err", "indexes", calls[n].table) /\ FullyRead(n - 1))
         /\ (calls[n].on = "tables" /\ calls[n].op \in {"Scan", "Err"} /\ n > 2)
              => (\/ Preceded(n, "Err", "foreignKeys", calls[n].table - 1) /\ FullyRead(n - 1)
                  \/ Preceded(n, "Err", "foreignKeys", calls[n].table) /\ FullyRead(n - 1)
                  \/ Preceded(n, "Query", "tables", 0))

\* The foreign keys of the second table are being read on a pool: its
\* columns and indexes queries are over, two result sets are open.
C26_Witness ==
    /\ querier = "pool"
    /\ db.pc = "foreignKeysNext"
    /\ db.t = 2
    /\ db.open = {"tables", "foreignKeys"}
    /\ \E n \in DOMAIN calls :
         calls[n].op = "Query" /\ calls[n].on = "indexes" /\ calls[n].table = 2

\* C27: buildRelationships changes nothing but the HasMany and BelongsTo
\* lists: during and after the call the tables are as many as on entry, in
\* the same order, and each is the table it was with at most these two
\* lists changed.
C27_OnlyRelationshipListsChange ==
    BuilderCalled =>
        /\ Len(tables) = Len(input)
        /\ \A k \in DOMAIN tables :
             [tables[k] EXCEPT !.HasMany = input[k].HasMany,
                               !.BelongsTo = input[k].BelongsTo] = input[k]

\* buildRelationships has returned on the two tables of Ledger, and has
\* changed the lists of ledger.entries, which references itself.
C27_Witness ==
    /\ pc = "done"
    /\ Len(tables) = 2
    /\ tables[2].Schema = "ledger"
    /\ tables[2] # input[2]
    /\ Len(tables[2].Columns) = 4
    /\ tables[2].Comment = "Ledger entries"

RECURSIVE SumTo(_, _)
\* f[1] + ... + f[n]
SumTo(f, n) == IF n = 0 THEN 0 ELSE f[n] + SumTo(f, n - 1)

\* The number of foreign keys of the input.
TotalForeignKeys == SumTo([t \in DOMAIN input |-> Len(input[t].ForeignKeys)], Len(input))

\* The number of entries table t has more than on entry, in BelongsTo and
\* in HasMany.
BelongsToAppended(t) == Len(tables[t].BelongsTo.elems) - Len(input[t].BelongsTo.elems)

HasManyAppended(t) == Len(tables[t].HasMany.elems) - Len(input[t].HasMany.elems)

\* Table a references table b and table b references table a.
ReferenceCycle(a, b) ==
    /\ \E f \in DOMAIN input[a].ForeignKeys : Refers(input[a].ForeignKeys[f], input[b])
    /\ \E f \in DOMAIN input[b].ForeignKeys : Refers(input[b].ForeignKeys[f], input[a])

\* C28: buildRelationships returns on every input, self-references and
\* reference cycles included; its second loop moves forward only, table by
\* table and foreign key by foreign key, and has then visited every foreign
\* key once (one BelongsTo entry each); it appends at most one HasMany entry
\* per foreign key, so at most twice as many entries as foreign keys.
C28_Terminates ==
    /\ <>Done
    /\ [][(pc = "link" /\ pc' = "link") =>
            (\/ (i' = i /\ j' = j + 1)
             \/ (i' = i + 1 /\ j' = 1 /\ j = Len(tables[i].ForeignKeys) + 1))]_vars
    /\ [](Done =>
            /\ i = Len(tables) + 1
            /\ \A t \in DOMAIN tables : BelongsToAppended(t) = Len(input[t].ForeignKeys)
            /\ SumTo([t \in DOMAIN tables |-> HasManyAppended(t)], Len(tables))
                 <= TotalForeignKeys
            /\ SumTo([t \in DOMAIN tables |-> HasManyAppended(t) + BelongsToAppended(t)],
                     Len(tables)) <= 2 * TotalForeignKeys)

\* buildRelationships has returned on two tables that reference each other.
C28_Witness ==
    /\ Done
    /\ Len(input) = 2
    /\ input[1].Name # input[2].Name
    /\ ReferenceCycle(1, 2)
    /\ HasManyAppended(1) = 1
    /\ HasManyAppended(2) = 1

\* C29: GetDBInfo returns either a DBInfo and a nil error, the DBInfo
\* carrying the name the database-name query answered, or no DBInfo and an
\* error; it does the latter at the first call that fails, which is then
\* the last call it makes, without running buildRelationships and with every
\* result set closed.
C29_ResultOrError ==
    /\ ~Returned => FailedCalls = {}
    /\ Returned =>
         /\ result.isNil # result.err.isNil
         /\ result.err.isNil <=> FailedCalls = {}
         /\ db.open = {}
         /\ result.err.isNil =>
              /\ result.Name = catalog.Name
              /\ calls[1] = Call("QueryRow", "database", 0, 0, "")
              /\ pc = "done"
         /\ ~result.err.isNil =>
              /\ FailedCalls = {Len(calls)}
              /\ ~BuilderCalled

\* GetDBInfo has returned an error after a row of the foreign keys of the
\* second table failed to scan, the first table already assembled and the
\* result sets of the tables and of the foreign keys open at that moment.
C29_Witness ==
    /\ Returned
    /\ result.isNil
    /\ Len(db.tables) = 1
    /\ db.t = 2
    /\ calls[Len(calls)].op = "Scan"
    /\ calls[Len(calls)].on = "foreignKeys"
    /\ calls[Len(calls)].err = "permission denied"
    /\ db.open = {}

\* The pair <<schema, name>> of the t-th table of the input, and the pair
\* a foreign key names as its target.
IdOf(t) == <<input[t].Schema, input[t].Name>>

TargetOf(fk) == <<fk.RefTableSchema, fk.RefTableName>>

\* The tables of the input with this pair, and the last of them.
TablesWith(id) == {t \in DOMAIN input : IdOf(t) = id}

LastWith(id) == CHOOSE t \in TablesWith(id) : \A u \in TablesWith(id) : u <= t

\* A foreign key whose target is a pair that two tables of the input share
\* is being processed.
ProcessingDuplicateTarget ==
    /\ pc = "link"
    /\ j' = j + 1
    /\ Cardinality(TablesWith(TargetOf(tables[i].ForeignKeys[j]))) >= 2

\* C30: when two tables of the input share their <<schema, name>>, a
\* foreign key with that target adds one HasMany entry in all, to the last
\* of these tables; an earlier table of the same <<schema, name>> gains no
\* HasMany entry, its list being non-nil after the return.
C30_DuplicateKeyLastWins ==
    /\ [][ProcessingDuplicateTarget =>
            \A r \in DOMAIN tables :
                Len(tables'[r].HasMany.elems) =
                  Len(tables[r].HasMany.elems) +
                    (IF r = LastWith(TargetOf(tables[i].ForeignKeys[j])) THEN 1 ELSE 0)]_vars
    /\ [](Done =>
            \A r \in DOMAIN tables :
                (\E u \in TablesWith(IdOf(r)) : u > r) =>
                    /\ ~tables[r].HasMany.isNil
                    /\ tables[r].HasMany.elems = input[r].HasMany.elems)

\* ------------------------------------------- apart from key collisions

\* The <<schema, name>> pairs of the input: its tables and the targets of
\* its foreign keys.
UsedIds ==
    {<<input[t].Schema, input[t].Name>> : t \in DOMAIN input} \cup
    {<<input[tk[1]].ForeignKeys[tk[2]].RefTableSchema,
       input[tk[1]].ForeignKeys[tk[2]].RefTableName>> : tk \in DeclaredFKs}

\* No two different pairs of the input are joined into the same tableMap key.
NoKeyCollision ==
    \A a, b \in UsedIds : TableKey(a[1], a[2]) = TableKey(b[1], b[2]) => a = b

\* The counts, the HasMany entries, the handling of dangling, self-referencing,
\* multiple and unrelated foreign keys, the column round trip and the
\* resolution of targets are as described whenever no two pairs of the input
\* collide on a key.
DescribedWithoutKeyCollision ==
    NoKeyCollision =>
        /\ C1_EntryCounts
        /\ C4_HasManyEntry
        /\ C5_DanglingTolerated
        /\ C6_SelfReference
        /\ C7_Multiplicity
        /\ C10_ColumnRoundTrip
        /\ C11_UnrelatedTableEmpty
        /\ C20_TargetBySchemaAndName

\* The <<schema, name>> pairs of all the tables and of the targets of all the
\* foreign keys of the input, however many tables it has.
AllIds ==
    {IdOf(t) : t \in DOMAIN input} \cup
    UNION {{TargetOf(input[t].ForeignKeys[f]) : f \in DOMAIN input[t].ForeignKeys} :
             t \in DOMAIN input}

\* No two different pairs among them are joined into the same key.
NoCollisionAtAll ==
    \A a, b \in AllIds : TableKey(a[1], a[2]) = TableKey(b[1], b[2]) => a = b

\* With a table occurring twice the last one wins, as described, whenever
\* no two pairs of the input collide on a key.
DuplicatesWithoutKeyCollision ==
    /\ [][(NoCollisionAtAll /\ ProcessingDuplicateTarget) =>
            \A r \in DOMAIN tables :
                Len(tables'[r].HasMany.elems) =
                  Len(tables[r].HasMany.elems) +
                    (IF r = LastWith(TargetOf(tables[i].ForeignKeys[j])) THEN 1 ELSE 0)]_vars
    /\ [](Done =>
            \A r \in DOMAIN tables :
                (\E u \in TablesWith(IdOf(r)) : u > r) =>
                    /\ ~tables[r].HasMany.isNil
                    /\ tables[r].HasMany.elems = input[r].HasMany.elems)

====
